---- MODULE Spec2Model ----
(***************************************************************************)
(* Model of the real-time layer of the chat backend                        *)
(* (src/Chatapp_Project/backend/server.js, lines 59-180): the activeUsers  *)
(* map, the socket.io rooms the handlers join and leave, and the events    *)
(* the handlers emit.                                                      *)
(*                                                                         *)
(* Each socket.io event handler is one action.  Node runs a handler to     *)
(* completion before the next event is dispatched and no handler awaits,   *)
(* so a handler is one atomic step.                                        *)
(*                                                                         *)
(* The message store is the messages table as POST /api/messages (lines    *)
(* 436-509) writes it: one transaction per request, committed or rolled    *)
(* back, which is one step as well.                                        *)
(*                                                                         *)
(* The conversations table is written by POST /api/conversations           *)
(* (routes/conversations.js, lines 58-133), one step up to the await after *)
(* its existence check and one for its transaction, and the friendships    *)
(* table by the routes of routes/friendships.js.                           *)
(***************************************************************************)
EXTENDS Integers, FiniteSets, Sequences, TLC

\* ------------------------------------------------------------------ bounds
NumSockets == 3
NumUsers == 2
NumConvs == 1
MaxClock == 2
NumCallSockets == 2
NumMsgs == 1
NumReqs == 3
MaxDirect == 3
MaxFriendships == 2

\* socket.id values: socket.io gives every transport session a fresh id, so
\* a socket of the model connects once and never reconnects under its id.
Sockets == 1..NumSockets
\* user ids that clients put in user_online / toUserId
Users == 1..NumUsers
\* conversation ids that clients put in join_conversation / data.conversation_id
Convs == 1..NumConvs
\* the sockets that connect under the call-signalling specification
CallSockets == 1..NumCallSockets
\* values of Date.now(), which are the call ids initiate_call hands out and
\* the call ids clients put in accept_call / reject_call / end_call
CallIds == 1..MaxClock
\* messages.id values: the AUTO_INCREMENT ids POST /api/messages inserts
\* rows under, and the ids clients put in the data of send_message
Msgs == 1..NumMsgs
\* the POST /api/conversations requests that can be in flight at once
Reqs == 1..NumReqs
\* friendships.id values: the AUTO_INCREMENT ids of the rows POST /requests
\* inserts, and the :id clients put in the accept and reject routes
FriendshipIds == 1..MaxFriendships

VARIABLES
    status,       \* socket -> "fresh" (not yet connected) | "open" | "closed"
    activeUsers,  \* the Map of line 60: entries [userId, sockId] in insertion order
    rooms,        \* socket.io adapter: conversation -> sockets in room conversation_<id>
    now,          \* Date.now()
    last,         \* observer: the inbound event just handled and what it emitted
    announced,    \* observer: socket -> user ids it sent in user_online (while open)
    joinRun,      \* observer: socket -> conversation -> joins since its last leave
    calls,        \* observer: call id -> the call last initiated under it
    messages,     \* the ids of the rows committed to the messages table
    conversations,\* the non-group rows of the conversations table, row i having
                  \* id i, each with the user ids of its conversation_participants
    posting,      \* request -> how far its POST /api/conversations handler has run
    friendships   \* the friendships table: row i has id i; a deleted row keeps
                  \* its place with status "deleted", its id is never reused

vars == <<status, activeUsers, rooms, now, last, announced, joinRun, calls, messages,
          conversations, posting, friendships>>

Open == {s \in Sockets : status[s] = "open"}

\* ------------------------------------------------------ the activeUsers Map
\* A JavaScript Map iterates in insertion order; set() on a present key
\* replaces the value and keeps the key's position.
MapHas(m, u) == \E i \in DOMAIN m : m[i].userId = u

MapGet(m, u) == m[CHOOSE i \in DOMAIN m : m[i].userId = u].sockId

MapSet(m, u, s) ==
    IF MapHas(m, u)
    THEN [i \in DOMAIN m |-> IF m[i].userId = u THEN [userId |-> u, sockId |-> s] ELSE m[i]]
    ELSE Append(m, [userId |-> u, sockId |-> s])

MapDelete(m, u) == SelectSeq(m, LAMBDA e : e.userId # u)

\* The socket ids a point-to-point event for user u is sent to: the handlers
\* read one socket id with activeUsers.get(u) and skip the emit when it is
\* undefined.
Resolve(u) == IF MapHas(activeUsers, u) THEN {MapGet(activeUsers, u)} ELSE {}

\* ------------------------------------------------------------ emit targets
\* socket.broadcast.emit: every connected socket but the sender.
BroadcastTargets(s) == Open \ {s}

\* io.to(room).emit, which a handler would use to include the sender.
RoomTargetsWithSender(s, c) == rooms[c]

\* socket.to(`conversation_${c}`).emit: the room's sockets but the sender.
RoomTargets(s, c) == rooms[c] \ {s}

\* A socket id keeps receiving what is sent to it after its socket is gone.
SocketTargetsKept(t) == {t}

\* io.to(socketId).emit: the room named by a socket id holds that socket while
\* it is connected, and nobody afterwards.
SocketTargets(t) == {t} \cap Open

\* ----------------------------------------------------------------- observer
\* What one handler run did: the inbound event (op, sock and its arguments)
\* and the outbound event (event, to and its payload).  A field that does not
\* apply is 0 / "none" / {}.
\*   before: for join/leave, the socket's joinRun for the conversation when
\*           the handler started; for accept/reject/end, the call's phase then
\*   left:   the conversations whose room the handler took the socket out of
\*   msg:    the message id in the data of send_message / the row id of a POST
\*   fromUserId: the fromUserId of an incoming_call payload, 0 for undefined
\*   friendshipId: the id of the friendships row a friendship route was about
Quiet(op, s) ==
    [op |-> op, sock |-> s, event |-> "none", to |-> {}, userId |-> 0, conv |-> 0,
     callId |-> 0, status |-> "none", before |-> "none", left |-> {}, msg |-> 0,
     fromUserId |-> 0, friendshipId |-> 0]

Emitted(op, s, event, to) == [Quiet(op, s) EXCEPT !.event = event, !.to = to]

\* The number of join_conversation events a socket has sent for a conversation
\* since its last leave_conversation for it, counted up to "twice".
JoinedAgain(run) == IF run = "none" THEN "once" ELSE "twice"

\* No call has been initiated under a call id.
NoCall == [phase |-> "none", caller |-> 0, callee |-> 0]

\* A request slot with no POST /api/conversations handler running.
NotPosting == [pc |-> "idle", me |-> 0, other |-> 0]

\* The open sockets that have announced user u.
LiveConns(u) == {s \in Open : u \in announced[s]}

\* ------------------------------------------------------------------- Init
Init ==
    /\ status = [s \in Sockets |-> "fresh"]
    /\ activeUsers = <<>>
    /\ rooms = [c \in Convs |-> {}]
    /\ now = 1
    /\ last = Quiet("none", 0)
    /\ announced = [s \in Sockets |-> {}]
    /\ joinRun = [s \in Sockets |-> [c \in Convs |-> "none"]]
    /\ calls = [k \in CallIds |-> NoCall]
    /\ messages = {}
    /\ conversations = <<>>
    /\ posting = [r \in Reqs |-> NotPosting]
    /\ friendships = <<>>

\* ------------------------------------------------- connection and presence
\* io.on('connection'): the handlers are registered, nothing is stored.
connection(s) ==
    /\ status[s] = "fresh"
    /\ status' = [status EXCEPT ![s] = "open"]
    /\ last' = Quiet("connection", s)
    /\ UNCHANGED <<activeUsers, rooms, now, announced, joinRun, calls, messages, conversations, posting, friendships>>

\* socket.on('user_online', userId)
user_online(s, u) ==
    /\ status[s] = "open"
    /\ activeUsers' = MapSet(activeUsers, u, s)
    /\ last' = [Emitted("user_online", s, "user_status_change", BroadcastTargets(s))
                   EXCEPT !.userId = u, !.status = "online"]
    /\ announced' = [announced EXCEPT ![s] = @ \cup {u}]
    /\ UNCHANGED <<status, rooms, now, joinRun, calls, messages, conversations, posting, friendships>>

\* The entries of the disconnect loop that hold socket s, in iteration order.
EntriesOf(s) == SelectSeq(activeUsers, LAMBDA e : e.sockId = s)

\* A loop that deletes the first entry of the map without comparing its
\* socket id with socket.id.
DisconnectDeletesFirst(s) == IF activeUsers = <<>> THEN {} ELSE {Head(activeUsers).userId}

\* The loop of lines 168-178: the first entry that holds socket.id is deleted
\* and the loop breaks.
DisconnectDeletes(s) == IF EntriesOf(s) = <<>> THEN {} ELSE {Head(EntriesOf(s)).userId}

\* The conversations whose room holds socket s.
RoomsOf(s) == {c \in Convs : s \in rooms[c]}

\* A closing socket that stays in the rooms it had joined.
LeaveNone(s) == rooms

\* The rooms after socket.io has taken a closing socket out of every room,
\* which it does before it emits 'disconnect'.
LeaveAll(s) == [c \in Convs |-> rooms[c] \ {s}]

\* socket.on('disconnect')
disconnect(s) ==
    /\ status[s] = "open"
    /\ status' = [status EXCEPT ![s] = "closed"]
    /\ rooms' = LeaveAll(s)
    /\ IF DisconnectDeletes(s) = {}
       THEN /\ activeUsers' = activeUsers
            /\ last' = [Quiet("disconnect", s) EXCEPT !.left = RoomsOf(s)]
       ELSE \E u \in DisconnectDeletes(s) :
            /\ activeUsers' = MapDelete(activeUsers, u)
            /\ last' = [Emitted("disconnect", s, "user_status_change", BroadcastTargets(s))
                           EXCEPT !.userId = u, !.status = "offline", !.left = RoomsOf(s)]
    /\ announced' = [announced EXCEPT ![s] = {}]
    /\ joinRun' = [joinRun EXCEPT ![s] = [c \in Convs |-> "none"]]
    /\ UNCHANGED <<now, calls, messages, conversations, posting, friendships>>

\* ------------------------------------------------------------------- rooms
\* socket.join(room): the adapter keeps a room as a set of socket ids.
Join(r, s, c) == [r EXCEPT ![c] = @ \cup {s}]

\* A leave that leaves the room as it is.
LeaveKeeps(r, s, c) == r

\* A leave that deletes the room instead of the socket's membership in it.
LeaveDeletesRoom(r, s, c) == [r EXCEPT ![c] = {}]

\* socket.leave(room)
Leave(r, s, c) == [r EXCEPT ![c] = @ \ {s}]

\* socket.on('join_conversation', conversationId)
join_conversation(s, c) ==
    /\ status[s] = "open"
    /\ rooms' = Join(rooms, s, c)
    /\ joinRun' = [joinRun EXCEPT ![s][c] = JoinedAgain(@)]
    /\ last' = [Quiet("join_conversation", s) EXCEPT !.conv = c, !.before = joinRun[s][c]]
    /\ UNCHANGED <<status, activeUsers, now, announced, calls, messages, conversations, posting, friendships>>

\* socket.on('leave_conversation', conversationId)
leave_conversation(s, c) ==
    /\ status[s] = "open"
    /\ rooms' = Leave(rooms, s, c)
    /\ joinRun' = [joinRun EXCEPT ![s][c] = "none"]
    /\ last' = [Quiet("leave_conversation", s) EXCEPT
                   !.conv = c, !.before = joinRun[s][c], !.left = RoomsOf(s) \cap {c}]
    /\ UNCHANGED <<status, activeUsers, now, announced, calls, messages, conversations, posting, friendships>>

\* A handler that only relays an event to the conversation's room.
RoomEvent(op, event, s, c, m) ==
    /\ status[s] = "open"
    /\ last' = [Emitted(op, s, event, RoomTargets(s, c)) EXCEPT !.conv = c, !.msg = m]
    /\ UNCHANGED <<status, activeUsers, rooms, now, announced, joinRun, calls, messages, conversations, posting, friendships>>

\* socket.on('send_message', data): data carries the message, id m
send_message(s, c, m) == RoomEvent("send_message", "new_message", s, c, m)

\* socket.on('typing_start', data)
typing_start(s, c) == RoomEvent("typing_start", "user_typing", s, c, 0)

\* socket.on('typing_stop', data)
typing_stop(s, c) == RoomEvent("typing_stop", "user_stop_typing", s, c, 0)

\* ---------------------------------------------------------------- messages
\* The id the next INSERT INTO messages gets.
NextInsertId == Cardinality(messages) + 1

\* POST /api/messages by a participant of the conversation: the transaction
\* inserts the row and commits, or an execute throws and it is rolled back.
\* Either way the route answers the HTTP request and emits no socket event.
post_message(committed) ==
    /\ NextInsertId \in Msgs
    /\ messages' = IF committed THEN messages \cup {NextInsertId} ELSE messages
    /\ last' = [Quiet("post_message", 0) EXCEPT
                    !.msg = NextInsertId,
                    !.status = IF committed THEN "committed" ELSE "failed"]
    /\ UNCHANGED <<status, activeUsers, rooms, now, announced, joinRun, calls, conversations, posting, friendships>>

\* ----------------------------------------------------------- conversations
\* The rows the existence check of POST /api/conversations selects: the
\* non-group conversations in which both users are participants.
ExistingDirect(me, other) ==
    {i \in DOMAIN conversations : {me, other} \subseteq conversations[i]}

\* POST /api/conversations for a direct conversation (is_group false, one
\* participant id), up to the await that follows its existence check.  When
\* the SELECT returns rows the handler answers with existingConvs[0].id, the
\* query having no ORDER BY; otherwise it goes on to the transaction.
post_conversation(r, me, other) ==
    /\ posting[r].pc = "idle"
    /\ IF ExistingDirect(me, other) # {}
       THEN /\ \E i \in ExistingDirect(me, other) :
                 last' = [Quiet("post_conversation", 0) EXCEPT
                             !.userId = me, !.conv = i, !.status = "exists"]
            /\ posting' = posting
       ELSE /\ last' = [Quiet("post_conversation", 0) EXCEPT
                             !.userId = me, !.status = "checked"]
            /\ posting' = [posting EXCEPT ![r] = [pc |-> "checked", me |-> me, other |-> other]]
    /\ UNCHANGED <<status, activeUsers, rooms, now, announced, joinRun, calls, messages,
                   conversations, friendships>>

\* The rest of the handler: the transaction that inserts the conversation and
\* its two participants and commits, answered 201, or is rolled back when an
\* execute throws, answered 500.
create_conversation(r, committed) ==
    /\ posting[r].pc = "checked"
    /\ Len(conversations) < MaxDirect
    /\ conversations' = IF committed
                          THEN Append(conversations, {posting[r].me, posting[r].other})
                          ELSE conversations
    /\ last' = [Quiet("create_conversation", 0) EXCEPT
                    !.userId = posting[r].me,
                    !.conv = IF committed THEN Len(conversations) + 1 ELSE 0,
                    !.status = IF committed THEN "created" ELSE "failed"]
    /\ posting' = [posting EXCEPT ![r] = NotPosting]
    /\ UNCHANGED <<status, activeUsers, rooms, now, announced, joinRun, calls, messages, friendships>>

\* ------------------------------------------------------------- friendships
\* Each friendship route runs a SELECT and then one INSERT, UPDATE or DELETE;
\* a handler is taken as one step, the runs in which nothing comes between
\* the two statements.
Min(a, b) == IF a < b THEN a ELSE b

Max(a, b) == IF a < b THEN b ELSE a

\* SELECT ... WHERE user_id1 = ? AND user_id2 = ?: the rows of a pair of users.
RowsOfPair(a, b) ==
    {i \in DOMAIN friendships :
        /\ friendships[i].status # "deleted"
        /\ friendships[i].user_id1 = Min(a, b)
        /\ friendships[i].user_id2 = Max(a, b)}

\* SELECT * FROM friendships WHERE id = ? AND (user_id1 = ? OR user_id2 = ?)
\* AND status = "pending": the test of the accept and the reject route.
PendingForMe(me, id) ==
    /\ id \in DOMAIN friendships
    /\ friendships[id].status = "pending"
    /\ me \in {friendships[id].user_id1, friendships[id].user_id2}

\* The answer of a friendship route and the row id it was about.
Answered(op, me, id, code) ==
    [Quiet(op, 0) EXCEPT !.userId = me, !.friendshipId = id, !.status = code]

\* POST /requests {toUserId} by user me, toUserId being another user
send_request(me, to) ==
    /\ IF RowsOfPair(me, to) # {}
       THEN /\ friendships' = friendships
            /\ last' = Answered("send_request", me, 0, "400")
       ELSE /\ Len(friendships) < MaxFriendships
            /\ friendships' = Append(friendships,
                    [user_id1 |-> Min(me, to), user_id2 |-> Max(me, to),
                     status |-> "pending", action_user_id |-> me])
            /\ last' = Answered("send_request", me, Len(friendships) + 1, "201")
    /\ UNCHANGED <<status, activeUsers, rooms, now, announced, joinRun, calls, messages,
                   conversations, posting>>

\* POST /requests/:id/accept by user me
accept_request(me, id) ==
    /\ IF PendingForMe(me, id)
       THEN /\ friendships' = [friendships EXCEPT
                                  ![id].status = "accepted", ![id].action_user_id = me]
            /\ last' = Answered("accept_request", me, id, "200")
       ELSE /\ friendships' = friendships
            /\ last' = Answered("accept_request", me, id, "404")
    /\ UNCHANGED <<status, activeUsers, rooms, now, announced, joinRun, calls, messages,
                   conversations, posting>>

\* POST /requests/:id/reject by user me
reject_request(me, id) ==
    /\ IF PendingForMe(me, id)
       THEN /\ friendships' = [friendships EXCEPT ![id].status = "deleted"]
            /\ last' = Answered("reject_request", me, id, "200")
       ELSE /\ friendships' = friendships
            /\ last' = Answered("reject_request", me, id, "404")
    /\ UNCHANGED <<status, activeUsers, rooms, now, announced, joinRun, calls, messages,
                   conversations, posting>>

\* The friendships[0].id of DELETE /friends/:friendId: the accepted row of the
\* pair, which the UNIQUE KEY on (user_id1, user_id2) makes the only one.
AcceptedRows(me, friend) == {i \in RowsOfPair(me, friend) : friendships[i].status = "accepted"}

\* DELETE /friends/:friendId by user me
remove_friend(me, friend) ==
    /\ IF AcceptedRows(me, friend) # {}
       THEN \E i \in AcceptedRows(me, friend) :
                /\ friendships' = [friendships EXCEPT ![i].status = "deleted"]
                /\ last' = Answered("remove_friend", me, i, "200")
       ELSE /\ friendships' = friendships
            /\ last' = Answered("remove_friend", me, 0, "404")
    /\ UNCHANGED <<status, activeUsers, rooms, now, announced, joinRun, calls, messages,
                   conversations, posting>>

\* ------------------------------------------------------------------- calls
\* The clock that Date.now() reads moves on between handler runs.
Tick ==
    /\ now < MaxClock
    /\ now' = now + 1
    /\ UNCHANGED <<status, activeUsers, rooms, last, announced, joinRun, calls, messages, conversations, posting, friendships>>

\* callId: Date.now().toString()
NewCallId == now

\* The observer's record of a call after accept_call, reject_call or end_call
\* was handled for it: a ringing call is accepted or rejected, a ringing or
\* accepted call is ended, and any other call is left as it is.
Advance(call, op) ==
    CASE op = "accept_call" /\ call.phase = "ringing" -> [call EXCEPT !.phase = "accepted"]
      [] op = "reject_call" /\ call.phase = "ringing" -> [call EXCEPT !.phase = "rejected"]
      [] op = "end_call" /\ call.phase \in {"ringing", "accepted"} -> [call EXCEPT !.phase = "ended"]
      [] OTHER -> call

\* The observer's record of a call id after an initiate_call from socket s to
\* user u that was answered call_failed: no call exists under it, unless one
\* did before.
Failed(call, s, u) ==
    IF call.phase = "none" THEN [phase |-> "failed", caller |-> s, callee |-> u] ELSE call

\* socket.userId, which initiate_call reads for the fromUserId of the payload.
\* No handler and no middleware of the server assigns the property, so it is
\* undefined on every socket, whatever the socket announced; 0 is undefined.
SocketUserId(s) == 0

\* socket.on('initiate_call', data)
initiate_call(s, u) ==
    /\ status[s] = "open"
    /\ IF MapHas(activeUsers, u)
       THEN /\ last' = [Emitted("initiate_call", s, "incoming_call",
                                SocketTargets(MapGet(activeUsers, u)))
                           EXCEPT !.userId = u, !.callId = NewCallId,
                                  !.fromUserId = SocketUserId(s)]
            /\ calls' = [calls EXCEPT ![NewCallId] =
                            [phase |-> "ringing", caller |-> s, callee |-> u]]
       ELSE /\ last' = [Emitted("initiate_call", s, "call_failed", {s}) EXCEPT !.userId = u]
            /\ calls' = [calls EXCEPT ![NewCallId] = Failed(@, s, u)]
    /\ UNCHANGED <<status, activeUsers, rooms, now, announced, joinRun, messages, conversations, posting, friendships>>

\* The accept_call, reject_call and end_call handlers: the event goes to the
\* socket activeUsers holds for data.toUserId, with data.callId as sent.
Signal(op, event, s, k, u) ==
    /\ status[s] = "open"
    /\ last' = [(IF MapHas(activeUsers, u)
                 THEN Emitted(op, s, event, SocketTargets(MapGet(activeUsers, u)))
                 ELSE Quiet(op, s))
                   EXCEPT !.userId = u, !.callId = k, !.before = calls[k].phase]
    /\ calls' = [calls EXCEPT ![k] = Advance(@, op)]
    /\ UNCHANGED <<status, activeUsers, rooms, now, announced, joinRun, messages, conversations, posting, friendships>>

\* socket.on('accept_call', data)
accept_call(s, k, u) == Signal("accept_call", "call_accepted", s, k, u)

\* socket.on('reject_call', data)
reject_call(s, k, u) == Signal("reject_call", "call_rejected", s, k, u)

\* socket.on('end_call', data)
end_call(s, k, u) == Signal("end_call", "call_ended", s, k, u)

\* ------------------------------------------------------------ specifications
\* The handlers of the three areas share only the connection and disconnect
\* handlers: presence and calls never touch rooms, rooms never touch
\* activeUsers.  Each area is checked under the specification of its handlers.

\* Presence: connections, identity announcements and disconnects.
NextPresence ==
    \/ \E s \in Sockets : connection(s)
    \/ \E s \in Sockets, u \in Users : user_online(s, u)
    \/ \E s \in Sockets : disconnect(s)

SpecPresence == Init /\ [][NextPresence]_vars

\* Rooms: connections, room membership, room events and disconnects.  No
\* message is stored here, so every message id is as good as another and
\* send_message carries the id the next insert would get.
NextRooms ==
    \/ \E s \in Sockets : connection(s)
    \/ \E s \in Sockets, c \in Convs : join_conversation(s, c)
    \/ \E s \in Sockets, c \in Convs : leave_conversation(s, c)
    \/ \E s \in Sockets, c \in Convs : send_message(s, c, NextInsertId)
    \/ \E s \in Sockets, c \in Convs : typing_start(s, c)
    \/ \E s \in Sockets, c \in Convs : typing_stop(s, c)
    \/ \E s \in Sockets : disconnect(s)

SpecRooms == Init /\ [][NextRooms]_vars

\* Calls: connections, identity announcements, call signalling and disconnects.
NextCalls ==
    \/ \E s \in CallSockets : connection(s)
    \/ \E s \in CallSockets, u \in Users : user_online(s, u)
    \/ Tick
    \/ \E s \in CallSockets, u \in Users : initiate_call(s, u)
    \/ \E s \in CallSockets, k \in CallIds, u \in Users : accept_call(s, k, u)
    \/ \E s \in CallSockets, k \in CallIds, u \in Users : reject_call(s, k, u)
    \/ \E s \in CallSockets, k \in CallIds, u \in Users : end_call(s, k, u)
    \/ \E s \in CallSockets : disconnect(s)

SpecCalls == Init /\ [][NextCalls]_vars

\* Ringing: connections, identity announcements, call initiation and
\* disconnects, over all the sockets.
NextRing ==
    \/ \E s \in Sockets : connection(s)
    \/ \E s \in Sockets, u \in Users : user_online(s, u)
    \/ Tick
    \/ \E s \in Sockets, u \in Users : initiate_call(s, u)
    \/ \E s \in Sockets : disconnect(s)

SpecRing == Init /\ [][NextRing]_vars

\* Signalling: connections, identity announcements, the three point-to-point
\* call events and disconnects.  No call is initiated here, so every call id
\* is as good as another and the events name the id of the current clock.
NextSignal ==
    \/ \E s \in CallSockets : connection(s)
    \/ \E s \in CallSockets, u \in Users : user_online(s, u)
    \/ \E s \in CallSockets, k \in {NewCallId}, u \in Users : accept_call(s, k, u)
    \/ \E s \in CallSockets, k \in {NewCallId}, u \in Users : reject_call(s, k, u)
    \/ \E s \in CallSockets, k \in {NewCallId}, u \in Users : end_call(s, k, u)
    \/ \E s \in CallSockets : disconnect(s)

SpecSignal == Init /\ [][NextSignal]_vars

\* Departure: connections, identity announcements and disconnects over the
\* smaller socket set, which is enough for one socket to take over or to
\* outlive the registration of another.
NextDeparture ==
    \/ \E s \in CallSockets : connection(s)
    \/ \E s \in CallSockets, u \in Users : user_online(s, u)
    \/ \E s \in CallSockets : disconnect(s)

SpecDeparture == Init /\ [][NextDeparture]_vars

\* Conversations: POST /api/conversations requests for direct conversations
\* between two different users, interleaved at the handler's awaits.
NextConversations ==
    \/ \E r \in Reqs, me \in Users :
          \E other \in Users \ {me} : post_conversation(r, me, other)
    \/ \E r \in Reqs, committed \in BOOLEAN : create_conversation(r, committed)

SpecConversations == Init /\ [][NextConversations]_vars

\* Friendships: the routes that write the friendships table, each user
\* addressing another user.
NextFriendships ==
    \/ \E me \in Users : \E to \in Users \ {me} : send_request(me, to)
    \/ \E me \in Users, id \in FriendshipIds : accept_request(me, id)
    \/ \E me \in Users, id \in FriendshipIds : reject_request(me, id)
    \/ \E me \in Users : \E friend \in Users \ {me} : remove_friend(me, friend)

SpecFriendships == Init /\ [][NextFriendships]_vars

\* Messages: connections, room membership, the message store behind
\* POST /api/messages, send_message and disconnects.
NextMessages ==
    \/ \E s \in Sockets : connection(s)
    \/ \E s \in Sockets, c \in Convs : join_conversation(s, c)
    \/ \E committed \in BOOLEAN : post_message(committed)
    \/ \E s \in Sockets, c \in Convs, m \in Msgs : send_message(s, c, m)
    \/ \E s \in Sockets : disconnect(s)

SpecMessages == Init /\ [][NextMessages]_vars

\* ------------------------------------------------------------------ presence
\* The step just taken broadcast user_status_change with this user and status.
StatusBroadcast(l, u, st) ==
    l.event = "user_status_change" /\ l.userId = u /\ l.status = st

\* C1: in every reachable state a user has an entry in the active-user
\* registry if and only if at least one connected socket has announced that
\* user id with user_online and has not disconnected.
C1_OnlineIffLiveConnection ==
    \A u \in Users : MapHas(activeUsers, u) <=> LiveConns(u) # {}

\* C2: when one of the connections on which user u announced itself
\* disconnects, the offline broadcast for u is emitted if and only if it was
\* the last of them that was still live: one broadcast for N connections, on
\* the Nth disconnect.  (Stated for connections that announced u alone.)
C2_OfflineOnLastDisconnect ==
    [][\A s \in Sockets, u \in Users :
         (disconnect(s) /\ u \in announced[s] /\ \A t \in LiveConns(u) : announced[t] = {u})
            => (StatusBroadcast(last', u, "offline") <=> LiveConns(u) = {s})]_vars

\* C3: every live connection that announced user u is in the set of
\* connections resolved for u: no announcement is overwritten by another.
C3_NoLostAnnouncement ==
    \A u \in Users : LiveConns(u) \subseteq Resolve(u)

\* C4: a user_online announcement for user u broadcasts 'online' if and only
\* if u had no live announced connection before it.
C4_OnlineOnFirstConnection ==
    [][\A s \in Sockets, u \in Users :
         user_online(s, u)
            => (StatusBroadcast(last', u, "online") <=> LiveConns(u) = {})]_vars

\* --------------------------------------------------------------------- rooms
RoomOps == {"send_message", "typing_start", "typing_stop"}

RoomEventOf(op) ==
    CASE op = "send_message" -> "new_message"
      [] op = "typing_start" -> "user_typing"
      [] op = "typing_stop" -> "user_stop_typing"

\* C5: a connection that has disconnected is a member of no conversation
\* room, and no event is dispatched to it.
C5_DisconnectLeavesRooms ==
    \A s \in Sockets : status[s] = "closed"
        => (\A c \in Convs : s \notin rooms[c]) /\ s \notin last.to

\* C5 witness: a connection disconnected while it was in a room that another
\* connection is still in.
C5_Witness ==
    /\ last.op = "disconnect"
    /\ last.left # {}
    /\ \E c \in last.left : rooms[c] # {}

\* C6: a send_message, typing_start or typing_stop from a connection is
\* delivered, as new_message, user_typing or user_stop_typing, to exactly the
\* connections subscribed to that conversation other than the sender.
C6_RoomEventToOthers ==
    last.op \in RoomOps
        => /\ last.event = RoomEventOf(last.op)
           /\ last.to = {s \in Sockets : s \in rooms[last.conv] /\ s # last.sock}

\* C6 witness: a subscribed connection sent a message that reached another
\* subscriber while a third connection was connected and not subscribed.
C6_Witness ==
    /\ last.op = "send_message"
    /\ last.sock \in rooms[last.conv]
    /\ last.to # {}
    /\ Open \ rooms[last.conv] # {}

\* C7 as claimed: after two join_conversation and one leave_conversation for
\* the same conversation the connection is still subscribed to it.
C7_StillSubscribedAfterLeave ==
    (last.op = "leave_conversation" /\ last.before = "twice")
        => last.sock \in rooms[last.conv]

\* C7 as amended: after two join_conversation and one leave_conversation
\* for the same conversation the connection is no longer subscribed to it.
C7_LeaveAfterTwoJoinsUnsubscribes ==
    (last.op = "leave_conversation" /\ last.before = "twice")
        => last.sock \notin rooms[last.conv]

\* C7 witness: a connection left a conversation it had joined twice.
C7_Witness ==
    last.op = "leave_conversation" /\ last.before = "twice" /\ last.left = {last.conv}

\* C8: a join_conversation by a connection that is in the room changes no
\* room's subscriber set, and a leave_conversation by a connection that is
\* not in the room (a second leave, or a leave without a join) changes no
\* room's subscriber set.
C8_JoinLeaveIdempotent ==
    [][/\ (last'.op = "join_conversation" /\ last'.sock \in rooms[last'.conv])
            => rooms' = rooms
       /\ (last'.op = "leave_conversation" /\ last'.sock \notin rooms[last'.conv])
            => rooms' = rooms]_vars

\* C8 witness: a connection that was already in a room another connection is
\* in joined it again.
C8_Witness ==
    /\ last.op = "join_conversation"
    /\ last.before # "none"
    /\ rooms[last.conv] \ {last.sock} # {}

\* --------------------------------------------------------------------- calls
\* User u is announced on connection s alone, and the registry says so.
Registered(u, s) == LiveConns(u) = {s} /\ Resolve(u) = {s}

\* initiate_call to a callee with no live connection (and no entry left in
\* the registry) is answered call_failed on the initiating connection alone.
OfflineCalleeFails ==
    (last.op = "initiate_call" /\ LiveConns(last.userId) = {} /\ Resolve(last.userId) = {})
        => last.event = "call_failed" /\ last.to = {last.sock}

\* The handled event was sent by the connection that initiated the call it
\* names, and names the callee of that call.
FromCaller ==
    /\ last.sock = calls[last.callId].caller
    /\ last.userId = calls[last.callId].callee
    /\ last.sock \notin LiveConns(last.userId)

\* The handled event was sent by a connection of the callee of the call it
\* names, and names a user announced on the connection that initiated it.
FromCallee ==
    /\ last.sock \in LiveConns(calls[last.callId].callee)
    /\ calls[last.callId].caller \in LiveConns(last.userId)
    /\ last.sock # calls[last.callId].caller

\* accept_call naming the call id of a failed attempt, under which no call
\* was created, delivers call_accepted to nobody.
AcceptOfFailedCallFails ==
    (last.op = "accept_call" /\ last.before = "failed" /\ FromCallee) => last.to = {}

\* C9: initiate_call to a callee with no live connection is answered
\* call_failed, delivers incoming_call to nobody and creates no call, so a
\* later accept_call for that attempt delivers no call_accepted.
C9_OfflineCalleeNoSession == OfflineCalleeFails /\ AcceptOfFailedCallFails

\* initiate(A to B), accept(B) and end(A), for users A and B that are each
\* announced on one connection, deliver incoming_call to B, call_accepted to A
\* and call_ended to B, with the call id of the call.
HappyPathDelivers ==
    /\ \A b \in Sockets :
         (last.op = "initiate_call" /\ Registered(last.userId, b))
            => /\ last.event = "incoming_call" /\ last.to = {b}
               /\ calls[last.callId].phase = "ringing"
    /\ \A a \in Sockets :
         (last.op = "accept_call" /\ last.before = "ringing" /\ FromCallee
            /\ Registered(last.userId, a))
            => last.event = "call_accepted" /\ last.to = {a}
    /\ \A b \in Sockets :
         (last.op = "end_call" /\ last.before = "accepted" /\ FromCaller
            /\ Registered(last.userId, b))
            => last.event = "call_ended" /\ last.to = {b}

\* end_call for a call that has been ended delivers call_ended to nobody.
SecondEndFails ==
    (last.op = "end_call" /\ last.before = "ended" /\ FromCaller) => last.to = {}

\* C10: initiate(A to B), accept(B), end(A) deliver incoming_call to B,
\* call_accepted to A and call_ended to B with the same call id, and a second
\* end(A) for that call id delivers no further call_ended.
C10_HappyPathThenUnknown == HappyPathDelivers /\ SecondEndFails

SignalOps == {"accept_call", "reject_call", "end_call"}

\* The handled event names a call that one user placed to another, and was
\* sent by a connection that has announced an identity, the callee of that
\* call not being among the users it announced.
FromNonCallee ==
    /\ calls[last.callId].caller \notin LiveConns(calls[last.callId].callee)
    /\ announced[last.sock] # {}
    /\ calls[last.callId].callee \notin announced[last.sock]

\* C11: an accept_call for a ringing call that is sent by a user other than
\* the call's callee delivers call_accepted to nobody.
C11_OnlyCalleeAccepts ==
    (last.op = "accept_call" /\ last.before = "ringing" /\ FromNonCallee)
        => last.to = {}

\* The handled event names a user that the sending connection has not
\* announced itself as.
NamesOtherUser == last.userId \notin announced[last.sock]

\* C12: an accept_call, reject_call or end_call naming a call id under which
\* no call was initiated, or whose call has been rejected or ended, delivers
\* no call_accepted, call_rejected or call_ended.
C12_UnknownCallFails ==
    (last.op \in SignalOps /\ last.before \in {"none", "rejected", "ended"} /\ NamesOtherUser)
        => last.to = {}

\* C13: an initiate_call that rings, placed by a connection of another user,
\* delivers incoming_call to every live connection on which the callee has
\* announced itself.
C13_RingsEveryConnection ==
    (/\ last.op = "initiate_call"
     /\ last.event = "incoming_call"
     /\ last.sock \notin LiveConns(last.userId))
        => LiveConns(last.userId) \subseteq last.to

\* The step is an initiate_call that rang: every other handler overwrites
\* last.op, and the clock leaves last alone but moves now.
InitiateRang == last'.op = "initiate_call" /\ last'.event = "incoming_call" /\ now' = now

\* C14: the call id a successful initiate_call hands out is one under which
\* no earlier initiate_call rang, also when the clock has not moved between
\* the two.
C14_FreshCallId ==
    [][InitiateRang => calls[last'.callId].phase # "ringing"]_vars

\* C15: a new_message that reaches a client carries a message that is
\* committed to the messages table.
C15_BroadcastAfterCommit ==
    (last.event = "new_message" /\ last.to # {}) => last.msg \in messages

PointToPoint == {"call_accepted", "call_rejected", "call_ended"}

\* C16: a call_accepted, call_rejected or call_ended addressed to a user who
\* has no live connection is delivered to nobody, and nothing is kept for the
\* user: a connection that opens or announces an identity is handed no
\* point-to-point event.
C16_OfflineTargetDropped ==
    /\ (last.op \in SignalOps /\ LiveConns(last.userId) = {}) => last.to = {}
    /\ (last.op \in {"connection", "user_online"} => last.event \notin PointToPoint)

\* A point-to-point event addressed to a user whose registry entry still
\* names a socket that has disconnected.
C16_Witness ==
    /\ last.op \in SignalOps
    /\ LiveConns(last.userId) = {}
    /\ MapHas(activeUsers, last.userId)
    /\ last.to = {}

\* C17: a user_status_change about user u reaches every connection of the
\* other connected users and no connection on which u itself is announced.
C17_PresenceToOthersOnly ==
    last.event = "user_status_change" =>
        /\ \A s \in Open :
               (announced[s] # {} /\ last.userId \notin announced[s]) => s \in last.to
        /\ last.to \cap LiveConns(last.userId) = {}

\* The connections of the user behind socket s: s itself and the live
\* connections that announced a user id s announced.
ConnsOfUserOf(s) == {s} \cup {r \in Open : announced[r] \cap announced[s] # {}}

\* The handled event names a live call that one announced user placed to
\* another.
OnLiveCall ==
    /\ last.before \in {"ringing", "accepted"}
    /\ announced[calls[last.callId].caller] # {}
    /\ calls[last.callId].caller \notin LiveConns(calls[last.callId].callee)

\* C18: call_accepted and call_rejected, sent by the callee for a ringing
\* call, reach only connections of the user who initiated the call; call_ended,
\* sent by one party of a live call, reaches only connections of the other
\* party.
C18_AnswerToInitiatorOnly ==
    /\ (/\ last.op \in {"accept_call", "reject_call"}
        /\ OnLiveCall
        /\ last.before = "ringing"
        /\ last.sock \in LiveConns(calls[last.callId].callee))
           => last.to \subseteq ConnsOfUserOf(calls[last.callId].caller)
    /\ (/\ last.op = "end_call"
        /\ OnLiveCall
        /\ last.sock \in LiveConns(calls[last.callId].callee))
           => last.to \subseteq ConnsOfUserOf(calls[last.callId].caller)
    /\ (/\ last.op = "end_call"
        /\ OnLiveCall
        /\ last.sock = calls[last.callId].caller)
           => last.to \subseteq LiveConns(calls[last.callId].callee)

\* C20: every socket id that activeUsers holds as a value is the id of a
\* connected socket.
C20_RegistryHoldsLiveSockets ==
    \A i \in DOMAIN activeUsers : activeUsers[i].sockId \in Open

\* C21: the incoming_call an initiate_call delivers carries as fromUserId a
\* user id the initiating connection announced with user_online, when that
\* connection has announced one.
C21_IncomingCallNamesCaller ==
    (/\ last.op = "initiate_call"
     /\ last.event = "incoming_call"
     /\ last.to # {}
     /\ last.userId \notin announced[last.sock]
     /\ announced[last.sock] # {})
        => last.fromUserId \in announced[last.sock]

\* The socket ids that activeUsers holds as values.
Registered_Sockets == {activeUsers[i].sockId : i \in DOMAIN activeUsers}

\* C22: the disconnect of a connected socket whose id no activeUsers entry
\* holds leaves activeUsers as it was and emits no event.
C22_UnregisteredDisconnectIsSilent ==
    [][(/\ last'.op = "disconnect"
        /\ status[last'.sock] = "open"
        /\ status'[last'.sock] = "closed"
        /\ last'.sock \notin Registered_Sockets)
           => (/\ activeUsers' = activeUsers
               /\ last'.event = "none"
               /\ last'.to = {})]_vars

\* A socket has disconnected silently while the registry holds entries, all
\* of them for other sockets that are still connected.
C22_Witness ==
    /\ last.op = "disconnect"
    /\ last.event = "none"
    /\ activeUsers # <<>>
    /\ Registered_Sockets \subseteq Open

\* C23: no two non-group conversations have the same two participants.
C23_OneDirectConversation ==
    \A i, j \in DOMAIN conversations :
        conversations[i] = conversations[j] => i = j

\* User me is the one the pending request of row id was sent to: a party of
\* the row who is not the user that created it.
RecipientOfPending(me, id) ==
    /\ id \in DOMAIN friendships
    /\ friendships[id].status = "pending"
    /\ me \in {friendships[id].user_id1, friendships[id].user_id2}
    /\ me # friendships[id].action_user_id

\* C24: an accept of a pending friend request by a user other than the one
\* the request was sent to, the sender included, is answered 404 and leaves
\* the friendships table as it was.
C24_OnlyRecipientAccepts ==
    [][(/\ last'.op = "accept_request"
        /\ last'.friendshipId \in DOMAIN friendships
        /\ friendships[last'.friendshipId].status = "pending"
        /\ ~RecipientOfPending(last'.userId, last'.friendshipId))
           => (last'.status = "404" /\ friendships' = friendships)]_vars

====
